---- MODULE Spec2Model ----
(***************************************************************************)
(* Model of the tweet-scraper result stream (src/src/scraper.rs):          *)
(* TweetScraper::tweets (the unfold closure and should_return_tweet),      *)
(* query_twitter (request, retry loop) and parse_tweets (page decoder).    *)
(*                                                                         *)
(* Text is modelled as a sequence of lexical tokens (one-character         *)
(* strings, plus the token "scroll:" for that literal prefix).  JSON       *)
(* values are tagged records: [t |-> "null"], [t |-> "str", s |-> text],   *)
(* [t |-> "obj", f |-> fields].                                            *)
(***************************************************************************)
EXTENDS Integers, Sequences, FiniteSets, TLC

\* ------------------------------------------------------------------ bounds
\* Largest configured limit tried (limits are None or 0..MaxLimit).
MaxLimit == 2
\* Largest number of query_twitter calls in one stream.
MaxFetches == 2
\* Largest number of retryable responses the upstream gives to one call.
MaxRetries == 2
\* Largest number of values one header name carries in a saved header set.
MaxValuesPerName == 2
\* Largest number of strings in a timeline given to the cursor extraction.
MaxTimelineLen == 2
\* Largest number of times one timeline is serialized and scanned.
MaxScans == 2

\* --------------------------------------------------------- program constants
TOO_MANY_REQUESTS == 429
REQUEST_TIMEOUT == 408
\* u128::MAX has 39 decimal digits.
U128Digits == 39

\* ------------------------------------------------------------------ text
Digits == {"0", "1", "2", "3", "4", "5", "6", "7", "8", "9"}

\* Value of a decimal digit / byte order of a token (ASCII).
DigitVal(c) ==
  CASE c = "0" -> 0 [] c = "1" -> 1 [] c = "2" -> 2 [] c = "3" -> 3
    [] c = "4" -> 4 [] c = "5" -> 5 [] c = "6" -> 6 [] c = "7" -> 7
    [] c = "8" -> 8 [] c = "9" -> 9

Code(c) ==
  CASE c \in Digits -> 48 + DigitVal(c)
    [] c = "+" -> 43
    [] c = "\"" -> 34
    [] c = "A" -> 65
    [] c = "B" -> 66
    [] c = "u" -> 117
    [] c = "x" -> 120
    [] c = "scroll:" -> 115
    [] OTHER -> 0

\* String ordering of BTreeMap<String, _>: byte-wise lexicographic.
RECURSIVE StrLess(_, _)
StrLess(a, b) ==
  IF b = <<>> THEN FALSE
  ELSE IF a = <<>> THEN TRUE
  ELSE IF Code(Head(a)) # Code(Head(b)) THEN Code(Head(a)) < Code(Head(b))
  ELSE StrLess(Tail(a), Tail(b))

\* ------------------------------------------------------------------ JSON
\* Objects with fixed field names are [t |-> "obj", f |-> record]; the two
\* keyed mappings of a page (keys are texts) are [t |-> "map", m |-> function].
Null == [t |-> "null"]
Str(s) == [t |-> "str", s |-> s]
Arr(a) == [t |-> "arr", a |-> a]
Obj(f) == [t |-> "obj", f |-> f]
Map(m) == [t |-> "map", m |-> m]

\* Value::index by key: Null when not an object or the key is missing.
Index(v, k) ==
  IF v.t = "obj" /\ k \in DOMAIN v.f THEN v.f[k] ELSE Null

\* ------------------------------------------------------------------ errors
Network == [kind |-> "Network", code |-> 0, msg |-> "transport"]
BadStatus(c) == [kind |-> "BadStatus", code |-> c, msg |-> ""]
TweetParse(m) == [kind |-> "TweetParse", code |-> 0, msg |-> m]

\* Result<T, Error>, and a panic (an unwinding thread returns nothing).
Ok(v) == [r |-> "ok", v |-> v]
Err(e) == [r |-> "err", e |-> e]
Panic == [r |-> "panic"]

None == [some |-> FALSE]
Some(x) == [some |-> TRUE, x |-> x]

\* str::parse::<u128>: an optional '+', then at least one decimal digit,
\* and a value below 2^128.
RECURSIVE DecVal(_, _)
DecVal(s, acc) ==
  IF s = <<>> THEN acc ELSE DecVal(Tail(s), 10 * acc + DigitVal(Head(s)))

RECURSIVE StripZeros(_)
StripZeros(s) ==
  IF s # <<>> /\ Head(s) = "0" THEN StripZeros(Tail(s)) ELSE s

\* Overflow is decided on the number of significant digits; the model's
\* identifiers are far shorter than U128Digits.
ParseU128(s) ==
  LET d == IF s # <<>> /\ Head(s) = "+" THEN Tail(s) ELSE s
  IN IF d = <<>> \/ \E i \in 1..Len(d) : d[i] \notin Digits
       THEN Err(TweetParse("invalid id_str"))
     ELSE IF Len(StripZeros(d)) > U128Digits
       THEN Err(TweetParse("invalid id_str"))
     ELSE Ok(DecVal(d, 0))

parse_id(tweet) ==
  LET id == Index(tweet, "id_str")
  IN IF id.t # "str" THEN Err(TweetParse("no id_str key")) ELSE ParseU128(id.s)

\* ------------------------------------------------------------ parse_tweets
\* serde_json::to_string of a string: quotes and backslashes are escaped.
RECURSIVE Escape(_)
Escape(s) ==
  IF s = <<>> THEN <<>>
  ELSE IF Head(s) \in {"\"", "\\"} THEN <<"\\", Head(s)>> \o Escape(Tail(s))
  ELSE <<Head(s)>> \o Escape(Tail(s))

RECURSIVE to_string(_)
RECURSIVE JoinValues(_)
JoinValues(a) ==
  IF a = <<>> THEN <<>>
  ELSE IF Len(a) = 1 THEN to_string(a[1])
  ELSE to_string(a[1]) \o <<",">> \o JoinValues(Tail(a))

to_string(v) ==
  CASE v.t = "str" -> <<"\"">> \o Escape(v.s) \o <<"\"">>
    [] v.t = "arr" -> <<"[">> \o JoinValues(v.a) \o <<"]">>
    [] OTHER -> <<"null">>

\* Regex "(scroll:.+?)" : the leftmost quote followed by scroll:, then the
\* shortest non-empty run up to a quote.  The result is capture group 1.
MatchStarts(text) ==
  { i \in 1..Len(text) :
      /\ text[i] = "\""
      /\ i + 1 <= Len(text) /\ text[i + 1] = "scroll:"
      /\ \E j \in (i + 3)..Len(text) : text[j] = "\"" }

Min(S) == CHOOSE x \in S : \A y \in S : x <= y

Max(S) == CHOOSE x \in S : \A y \in S : x >= y

\* Variant of cursor_re_captures with a greedy run (up to the last quote).
cursor_re_captures_greedy(text) ==
  IF MatchStarts(text) = {} THEN None
  ELSE LET i == Min(MatchStarts(text))
           j == Max({ k \in (i + 3)..Len(text) : text[k] = "\"" })
       IN Some(SubSeq(text, i + 1, j - 1))

cursor_re_captures(text) ==
  IF MatchStarts(text) = {} THEN None
  ELSE LET i == Min(MatchStarts(text))
           j == Min({ k \in (i + 3)..Len(text) : text[k] = "\"" })
       IN Some(SubSeq(text, i + 1, j - 1))

\* serde_json::from_value::<Root>: the body must be an object holding
\* globalObjects {tweets: map, users: map} and a timeline.
IsRoot(json) ==
  /\ json.t = "obj"
  /\ {"globalObjects", "timeline"} \subseteq DOMAIN json.f
  /\ json.f.globalObjects.t = "obj"
  /\ {"tweets", "users"} \subseteq DOMAIN json.f.globalObjects.f
  /\ json.f.globalObjects.f.tweets.t = "map"
  /\ json.f.globalObjects.f.users.t = "map"

\* Keys of a map in descending BTreeMap order (into_values().rev()).
MaxKey(K) == CHOOSE k \in K : \A o \in K : o = k \/ StrLess(o, k)

\* Variant of KeysDesc without the reversal: ascending key order.
RECURSIVE KeysAsc(_)
KeysAsc(K) ==
  IF K = {} THEN <<>> ELSE KeysAsc(K \ {MaxKey(K)}) \o <<MaxKey(K)>>

RECURSIVE KeysDesc(_)
KeysDesc(K) ==
  IF K = {} THEN <<>> ELSE <<MaxKey(K)>> \o KeysDesc(K \ {MaxKey(K)})

\* Indexing a serde_json Map by a missing key panics.
MergePanics(tweet) == tweet.t = "obj" /\ "user_id_str" \notin DOMAIN tweet.f

\* The loop body at one tweet: embed the user when the tweet is an object,
\* its user_id_str is a string and the users map has that key.
MergeUser(tweet, users) ==
  IF tweet.t = "obj"
     /\ "user_id_str" \in DOMAIN tweet.f
     /\ tweet.f.user_id_str.t = "str"
     /\ tweet.f.user_id_str.s \in DOMAIN users
  THEN Obj([k \in DOMAIN tweet.f \cup {"user"} |->
              IF k = "user" THEN users[tweet.f.user_id_str.s] ELSE tweet.f[k]])
  ELSE tweet

parse_tweets(json) ==
  IF ~IsRoot(json) THEN Err(TweetParse("bad shape"))
  ELSE
    LET tweets == json.f.globalObjects.f.tweets.m
        users == json.f.globalObjects.f.users.m
        keys == KeysDesc(DOMAIN tweets)
        merged == [i \in 1..Len(keys) |-> MergeUser(tweets[keys[i]], users)]
        cap == cursor_re_captures(to_string(json.f.timeline))
    IN IF \E k \in DOMAIN tweets : MergePanics(tweets[k]) THEN Panic
       ELSE IF ~cap.some THEN Err(TweetParse("could not find cursor"))
       ELSE Ok([tweets |-> merged, cursor |-> cap.x])

\* The sequences of at most n members of S.
RECURSIVE SeqsUpTo(_, _)
SeqsUpTo(S, n) ==
  IF n = 0 THEN {<<>>}
  ELSE SeqsUpTo(S, n - 1)
       \cup { Append(q, x) : q \in { p \in SeqsUpTo(S, n - 1) : Len(p) = n - 1 },
                             x \in S }

\* The cursor part of parse_tweets: serialize the timeline, scan it.
extract_cursor(timeline) ==
  LET cap == cursor_re_captures(to_string(timeline))
  IN IF ~cap.some THEN Err(TweetParse("could not find cursor"))
     ELSE Ok(cap.x)

\* Timelines the cursor extraction is run on: arrays of strings, among them
\* an empty token, a token after a quote inside a string, and a token that
\* holds a quote.
TimelineStrings ==
  { <<"x">>, <<"scroll:", "A">>, <<"scroll:", "B">>, <<"scroll:">>,
    <<"x", "\"", "scroll:", "A">>, <<"scroll:", "A", "\"", "B">> }

ScanTimelines ==
  { Arr([i \in 1..Len(q) |-> Str(q[i])]) :
      q \in SeqsUpTo(TimelineStrings, MaxTimelineLen) }

\* ------------------------------------------------------------ the upstream
\* What the upstream can answer to one request: a transport failure, or a
\* status with a body (read only under a 2xx status).
User == Obj([screen_name |-> Str(<<"u">>)])
Users == Map(<<"u">> :> User)

\* Entries of the tweets mapping the upstream draws its pages from.
Entry9 == <<"9">> :> Obj([id_str |-> Str(<<"9">>), user_id_str |-> Str(<<"u">>)])
Entry2 == <<"2">> :> Obj([id_str |-> Str(<<"2">>), user_id_str |-> Str(<<"x">>)])
EntryBadId == <<"5">> :> Obj([id_str |-> Str(<<"x">>), user_id_str |-> Null])
EntryNoUserKey == <<"3">> :> Obj([id_str |-> Str(<<"3">>)])
Entries == {Entry9, Entry2, EntryBadId, EntryNoUserKey}

RECURSIVE MergeEntries(_)
MergeEntries(S) ==
  IF S = {} THEN <<>>
  ELSE LET e == CHOOSE x \in S : TRUE IN e @@ MergeEntries(S \ {e})

TweetMaps == { Map(MergeEntries(S)) : S \in SUBSET Entries }

Timelines ==
  { Arr(<<Str(<<"x">>)>>),
    Arr(<<Str(<<"scroll:", "A">>)>>),
    Arr(<<Str(<<"x">>), Str(<<"scroll:", "B">>), Str(<<"scroll:", "A">>)>>) }

NotJson == [json |-> FALSE, v |-> Null]
Json(v) == [json |-> TRUE, v |-> v]

Bodies ==
  {NotJson, Json(Obj([timeline |-> Arr(<<Str(<<"scroll:", "A">>)>>)]))}
  \cup { Json(Obj([globalObjects |-> Obj([tweets |-> tw, users |-> Users]),
                   timeline |-> tl])) : tw \in TweetMaps, tl \in Timelines }

Statuses == {199, 200, 299, 300, 404, 408, 429, 499, 500, 599, 600}

\* Variant of Retryable that also retries client errors.
RetryableClientErrors(s) ==
  (400 <= s /\ s < 600) \/ s \in {TOO_MANY_REQUESTS, REQUEST_TIMEOUT}

\* StatusCode::is_success, StatusCode::is_server_error, RETRY_STATUS.
is_success(s) == 200 <= s /\ s < 300
is_server_error(s) == 500 <= s /\ s < 600
RETRY_STATUS == {TOO_MANY_REQUESTS, REQUEST_TIMEOUT}
Retryable(s) == is_server_error(s) \/ s \in RETRY_STATUS

\* ------------------------------------------------------ header_persist.rs
\* A HeaderMap is a function from names to the non-empty sequence of values
\* the name carries; names and values are UTF-8 texts.
HeaderNames == {<<"a">>, <<"b">>}
HeaderValues == {<<"v">>, <<"w", "=", "z">>, <<>>, <<" ", "v">>}
NameTokens == {"a", "b"}
ValueTokens == {"v", "w", "z", "=", " "}

HeaderSets ==
  UNION { [D -> SeqsUpTo(HeaderValues, MaxValuesPerName) \ {<<>>}] :
            D \in SUBSET HeaderNames }

\* The orders in which a HeaderMap may iterate over its names.
RECURSIVE Orders(_)
Orders(D) ==
  IF D = {} THEN {<<>>}
  ELSE UNION { { <<n>> \o o : o \in Orders(D \ {n}) } : n \in D }

\* save_headers: one line "name=value\n" per (name, value) of the iteration.
RECURSIVE WriteValues(_, _)
WriteValues(name, values) ==
  IF values = <<>> THEN <<>>
  ELSE name \o <<"=">> \o Head(values) \o <<"\n">>
       \o WriteValues(name, Tail(values))

RECURSIVE WriteHeaders(_, _)
WriteHeaders(headers, order) ==
  IF order = <<>> THEN <<>>
  ELSE WriteValues(Head(order), headers[Head(order)])
       \o WriteHeaders(headers, Tail(order))

\* BufReader::lines: the text cut at each "\n".
RECURSIVE SplitLines(_, _)
SplitLines(bytes, line) ==
  IF bytes = <<>> THEN (IF line = <<>> THEN <<>> ELSE <<line>>)
  ELSE IF Head(bytes) = "\n" THEN <<line>> \o SplitLines(Tail(bytes), <<>>)
  ELSE SplitLines(Tail(bytes), Append(line, Head(bytes)))

\* str::trim().is_empty()
IsBlank(line) == \A i \in 1..Len(line) : line[i] = " "

\* str::split_once('='): None without '=', else the text before and after
\* the first one.
split_once(line) ==
  LET P == { i \in 1..Len(line) : line[i] = "=" }
  IN IF P = {} THEN None
     ELSE Some([k |-> SubSeq(line, 1, Min(P) - 1),
                v |-> SubSeq(line, Min(P) + 1, Len(line))])

\* HeaderName::from_bytes / HeaderValue::from_bytes accept the text.
NameValid(k) == k # <<>> /\ \A i \in 1..Len(k) : k[i] \in NameTokens
ValueValid(v) == \A i \in 1..Len(v) : v[i] \in ValueTokens

LoadIo == [kind |-> "Io"]
LoadParse == [kind |-> "Parse"]

\* HeaderMap::insert: the name now carries this value only.
Insert(headers, name, value) ==
  [n \in DOMAIN headers \cup {name} |->
     IF n = name THEN <<value>> ELSE headers[n]]

\* The while loop of load_headers over the lines still to read.
RECURSIVE LoadLines(_, _)
LoadLines(lines, headers) ==
  IF lines = <<>> THEN Ok(headers)
  ELSE LET line == Head(lines)
           kv == split_once(line)
       IN IF IsBlank(line) THEN LoadLines(Tail(lines), headers)
          ELSE IF ~kv.some THEN Err(LoadParse)
          ELSE IF ~NameValid(kv.x.k) \/ ~ValueValid(kv.x.v) THEN Err(LoadParse)
          ELSE LoadLines(Tail(lines), Insert(headers, kv.x.k, kv.x.v))

load_headers(bytes) == LoadLines(SplitLines(bytes, <<>>), <<>>)

\* ------------------------------------------------------------ FetchState
Queries == {<<"r">>}
Limits == {None} \cup { Some(n) : n \in 0..MaxLimit }
Floors == {None, Some(5)}

DefaultFetchState ==
  [tweets |-> <<>>, query |-> <<>>, limit |-> None, min_id |-> None,
   tweets_count |-> 0, cursor |-> None, errored |-> FALSE]

\* Variant of BuildUrl that never appends the cursor parameter.
BuildUrlNoCursor(query, cursor) ==
  [endpoint |-> "api.twitter.com/2/search/adaptive.json", q |-> query,
   cursor |-> None]

\* The request URL: the fixed endpoint and parameters, the query, and the
\* cursor parameter when there is a cursor.
BuildUrl(query, cursor) ==
  [endpoint |-> "api.twitter.com/2/search/adaptive.json", q |-> query,
   cursor |-> cursor]

VARIABLES
  fetch_state,  \* TweetScraper.fetch_state; buffered tweets carry the labels
                \* uid (arrival number) and page (number of the page)
  pc,           \* "nostream", "ready", "sending", "sleeping", "ended", "panicked"
  url,          \* the url local of the running query_twitter call
  yielded,      \* history: the items this stream has yielded
  arrived,      \* history: the tweets this stream has buffered, in order
  fetchLog,     \* history: the url of each query_twitter call of this stream
  pageCursors,  \* history: the cursor decoded from each successful page
  pull          \* history of the current (or last) pull

\* The state of the routines that run outside a stream.
VARIABLES
  hdr,          \* one use of header_persist.rs: the HeaderMap given to
                \* save_headers, the file, and what the two calls returned
  cli,          \* main.rs: where main is, its exit code and what it met
  dec,          \* parse_tweets on its own: the input and what it returned
  calls         \* history: the arguments of the last tweets() call and what
                \* the stream before it had come to

stream == <<fetch_state, pc, url, yielded, arrived, fetchLog, pageCursors, pull>>
aux == <<hdr, cli, dec, calls>>
vars == <<fetch_state, pc, url, yielded, arrived, fetchLog, pageCursors, pull,
          hdr, cli, dec, calls>>

\* The history of one pull: query_twitter calls made, requests sent (their
\* urls), sleeps taken, retryable statuses received, the status that last put
\* the call to sleep or failed it (0: none), whether send() failed, the
\* tweets popped and how the pull ended.
NoPull ==
  [fetches |-> 0, reqs |-> <<>>, sleeps |-> 0, retryable |-> 0,
   status |-> 0, transport |-> FALSE, popped |-> <<>>, result |-> "none"]

NoUrl == BuildUrl(<<>>, None)

\* No header file in use.
NoHeaders ==
  [pc |-> "none", headers |-> <<>>, order |-> <<>>, file |-> <<>>,
   saved |-> "none", opened |-> FALSE, loaded |-> "none"]

\* tweets() not called yet.
NoCalls == [args |-> <<>>, earlier |-> None]

\* The scraper before any stream is created.
NoStream ==
  /\ fetch_state = DefaultFetchState
  /\ pc = "nostream"
  /\ url = NoUrl
  /\ yielded = <<>>
  /\ arrived = <<>>
  /\ fetchLog = <<>>
  /\ pageCursors = <<>>
  /\ pull = NoPull

\* main not running.  code is the exit code of the process (-1 while it
\* runs), init what initialize returned, write what the last writeln
\* returned, taken the items main took from the stream, written the lines
\* it wrote.
NoMain ==
  [pc |-> "none", code |-> -1, init |-> "none", write |-> "none",
   taken |-> 0, written |-> 0]

\* parse_tweets not in use on its own.
NoDecode == [pc |-> "none", input |-> Null, scans |-> <<>>, out |-> "none"]

Init ==
  /\ NoStream
  /\ calls = NoCalls
  /\ hdr = NoHeaders
  /\ cli = NoMain
  /\ dec = NoDecode

\* Variant of should_return_tweet with the floor comparison reversed.
should_return_tweet_reversed(fs, tweet) ==
  LET id == parse_id(tweet.v)
  IN IF fs.min_id.some /\ id.r = "err"
       THEN [fs |-> [fs EXCEPT !.errored = TRUE], ret |-> Some(Err(id.e))]
     ELSE IF fs.min_id.some /\ id.v > fs.min_id.x
       THEN [fs |-> fs, ret |-> None]
     ELSE [fs |-> [fs EXCEPT !.tweets_count = @ + 1], ret |-> Some(Ok(tweet))]

\* Variant of should_return_tweet that yields a tweet whose identifier does
\* not parse.
should_return_tweet_unvalidated(fs, tweet) ==
  LET id == parse_id(tweet.v)
  IN IF fs.min_id.some /\ id.r = "ok" /\ id.v < fs.min_id.x
       THEN [fs |-> fs, ret |-> None]
     ELSE [fs |-> [fs EXCEPT !.tweets_count = @ + 1], ret |-> Some(Ok(tweet))]

\* ------------------------------------------------- should_return_tweet
\* The closure at one popped tweet, with the state it leaves: None below the
\* floor, Some(Err) with errored set when the identifier does not parse,
\* Some(Ok) with tweets_count incremented otherwise.
should_return_tweet(fs, tweet) ==
  LET id == parse_id(tweet.v)
  IN IF fs.min_id.some /\ id.r = "err"
       THEN [fs |-> [fs EXCEPT !.errored = TRUE], ret |-> Some(Err(id.e))]
     ELSE IF fs.min_id.some /\ id.v < fs.min_id.x
       THEN [fs |-> fs, ret |-> None]
     ELSE [fs |-> [fs EXCEPT !.tweets_count = @ + 1], ret |-> Some(Ok(tweet))]

\* Variant of pop_and_return that pops from the back of the buffer.
pop_back_and_return(fs) ==
  IF fs.tweets = <<>> THEN [fs |-> fs, ret |-> None, popped |-> <<>>]
  ELSE LET n == Len(fs.tweets)
           r == should_return_tweet([fs EXCEPT !.tweets = SubSeq(@, 1, n - 1)],
                                    fs.tweets[n])
       IN [fs |-> r.fs, ret |-> r.ret, popped |-> <<fs.tweets[n]>>]

\* "Try returning the next tweet if available": pop_front, then the closure.
pop_and_return(fs) ==
  IF fs.tweets = <<>> THEN [fs |-> fs, ret |-> None, popped |-> <<>>]
  ELSE LET r == should_return_tweet([fs EXCEPT !.tweets = Tail(@)],
                                    Head(fs.tweets))
       IN [fs |-> r.fs, ret |-> r.ret, popped |-> <<Head(fs.tweets)>>]

\* Variant of StopsEarly with the limit test off by one.
StopsEarlyOffByOne(fs) ==
  \/ fs.errored
  \/ fs.limit.some /\ fs.tweets_count > fs.limit.x

\* The two early returns of a pull: previously errored, or limit reached.
StopsEarly(fs) ==
  \/ fs.errored
  \/ fs.limit.some /\ fs.tweets_count >= fs.limit.x

\* Variant of StorePage that keeps the old cursor.
StorePageKeepCursor(fs, page, labelled) ==
  [fs EXCEPT !.tweets = @ \o labelled]

\* Ok((tweets, cursor)): extend the buffer, store the cursor.
StorePage(fs, page, labelled) ==
  [fs EXCEPT !.tweets = @ \o labelled, !.cursor = Some(page.cursor)]

\* ------------------------------------------------------------ actions
\* Variant of Tweets that sets the arguments and keeps the rest of the state.
TweetsKeepsState(q, l, m) ==
  /\ pc # "panicked"
  /\ fetch_state' = [fetch_state EXCEPT !.query = q, !.limit = l, !.min_id = m]
  /\ pc' = "ready"
  /\ yielded' = <<>>
  /\ arrived' = <<>>
  /\ fetchLog' = <<>>
  /\ pageCursors' = <<>>
  /\ pull' = NoPull
  /\ url' = NoUrl

\* tweets(): reset the state for a new stream.
Tweets(q, l, m) ==
  /\ pc # "panicked"
  /\ fetch_state' = [DefaultFetchState EXCEPT
                       !.query = q, !.limit = l, !.min_id = m]
  /\ pc' = "ready"
  /\ yielded' = <<>>
  /\ arrived' = <<>>
  /\ fetchLog' = <<>>
  /\ pageCursors' = <<>>
  /\ pull' = NoPull
  /\ url' = NoUrl

\* A pull that ends the stream at once (errored, or limit reached).
PullStop ==
  /\ pc = "ready"
  /\ StopsEarly(fetch_state)
  /\ pc' = "ended"
  /\ pull' = [NoPull EXCEPT !.result = "end"]
  /\ UNCHANGED <<fetch_state, url, yielded, arrived, fetchLog, pageCursors>>

\* A pull that returns an item from the buffer.
PullBuffered ==
  /\ pc = "ready"
  /\ ~StopsEarly(fetch_state)
  /\ LET r == pop_and_return(fetch_state)
     IN /\ r.ret.some
        /\ fetch_state' = r.fs
        /\ yielded' = Append(yielded, r.ret.x)
        /\ pull' = [NoPull EXCEPT !.popped = r.popped,
                      !.result = IF r.ret.x.r = "ok" THEN "item" ELSE "error"]
  /\ UNCHANGED <<pc, url, arrived, fetchLog, pageCursors>>

\* A pull that finds nothing to return in the buffer and calls
\* query_twitter: the url is built and the first request is sent.
PullFetch ==
  /\ pc = "ready"
  /\ ~StopsEarly(fetch_state)
  /\ Len(fetchLog) < MaxFetches
  /\ LET r == pop_and_return(fetch_state)
         u == BuildUrl(r.fs.query, r.fs.cursor)
     IN /\ ~r.ret.some
        /\ fetch_state' = r.fs
        /\ url' = u
        /\ fetchLog' = Append(fetchLog, u)
        /\ pull' = [NoPull EXCEPT !.popped = r.popped, !.fetches = 1,
                      !.reqs = <<u>>, !.result = "pending"]
  /\ pc' = "sending"
  /\ UNCHANGED <<yielded, arrived, pageCursors>>

\* Variant of FetchFails that also forgets the cursor.
FetchFailsResetsCursor(e, st) ==
  /\ fetch_state' = [fetch_state EXCEPT !.errored = TRUE, !.cursor = None]
  /\ yielded' = Append(yielded, Err(e))
  /\ pull' = [pull EXCEPT !.result = "error", !.status = st]
  /\ pc' = "ready"
  /\ UNCHANGED <<url, arrived, fetchLog, pageCursors>>

\* Variant of FetchFails that leaves the errored flag alone.
FetchFailsNoFlag(e, st) ==
  /\ yielded' = Append(yielded, Err(e))
  /\ pull' = [pull EXCEPT !.result = "error", !.status = st]
  /\ pc' = "ready"
  /\ UNCHANGED <<fetch_state, url, arrived, fetchLog, pageCursors>>

\* The pull returns an error from query_twitter (st: the status that
\* caused it, 0 when the body did).
FetchFails(e, st) ==
  /\ fetch_state' = [fetch_state EXCEPT !.errored = TRUE]
  /\ yielded' = Append(yielded, Err(e))
  /\ pull' = [pull EXCEPT !.result = "error", !.status = st]
  /\ pc' = "ready"
  /\ UNCHANGED <<url, arrived, fetchLog, pageCursors>>

\* The pull got a page: store it, then try the buffer once more.
FetchSucceeds(page) ==
  LET labelled == [i \in 1..Len(page.tweets) |->
                     [v |-> page.tweets[i], uid |-> Len(arrived) + i,
                      page |-> Len(pageCursors) + 1]]
      r == pop_and_return(StorePage(fetch_state, page, labelled))
  IN /\ fetch_state' = r.fs
     /\ arrived' = arrived \o labelled
     /\ pageCursors' = Append(pageCursors, page.cursor)
     /\ yielded' = IF r.ret.some THEN Append(yielded, r.ret.x) ELSE yielded
     /\ pull' = [pull EXCEPT !.popped = @ \o r.popped,
                   !.result = IF ~r.ret.some THEN "end"
                              ELSE IF r.ret.x.r = "ok" THEN "item" ELSE "error"]
     /\ pc' = IF r.ret.some THEN "ready" ELSE "ended"
     /\ UNCHANGED <<url, fetchLog>>

\* Variant of RespondNetworkError that sleeps and retries.
RespondNetworkErrorRetries ==
  /\ pc = "sending"
  /\ pull.retryable < MaxRetries
  /\ pc' = "sleeping"
  /\ pull' = [pull EXCEPT !.retryable = @ + 1, !.sleeps = @ + 1,
                !.transport = TRUE]
  /\ UNCHANGED <<fetch_state, url, yielded, arrived, fetchLog, pageCursors>>

\* send() fails: Error::Network, no retry.
RespondNetworkError ==
  /\ pc = "sending"
  /\ fetch_state' = [fetch_state EXCEPT !.errored = TRUE]
  /\ yielded' = Append(yielded, Err(Network))
  /\ pull' = [pull EXCEPT !.result = "error", !.transport = TRUE]
  /\ pc' = "ready"
  /\ UNCHANGED <<url, arrived, fetchLog, pageCursors>>

\* A 2xx response: the body is read as JSON and decoded.
RespondSuccess(status, body) ==
  /\ pc = "sending"
  /\ is_success(status)
  /\ LET res == IF ~body.json THEN Err(TweetParse("not json"))
                ELSE parse_tweets(body.v)
     IN CASE res.r = "ok" -> FetchSucceeds(res.v)
          [] res.r = "err" -> FetchFails(res.e, 0)
          [] OTHER -> /\ pc' = "panicked"
                      /\ pull' = [pull EXCEPT !.result = "panic"]
                      /\ UNCHANGED <<fetch_state, url, yielded, arrived,
                                     fetchLog, pageCursors>>

\* A retryable status: the call goes to sleep.
RespondRetry(status) ==
  /\ pc = "sending"
  /\ ~is_success(status)
  /\ Retryable(status)
  /\ pull.retryable < MaxRetries
  /\ pc' = "sleeping"
  /\ pull' = [pull EXCEPT !.retryable = @ + 1, !.sleeps = @ + 1,
                !.status = status]
  /\ UNCHANGED <<fetch_state, url, yielded, arrived, fetchLog, pageCursors>>

\* Any other status: Error::BadStatus with the code.
RespondBadStatus(status) ==
  /\ pc = "sending"
  /\ ~is_success(status)
  /\ ~Retryable(status)
  /\ FetchFails(BadStatus(status), status)

\* Variant of Wake that rebuilds the url without the cursor.
WakeRebuildsUrl ==
  /\ pc = "sleeping"
  /\ pc' = "sending"
  /\ pull' = [pull EXCEPT !.reqs = Append(@, BuildUrl(fetch_state.query, None)),
                !.status = 0]
  /\ UNCHANGED <<fetch_state, url, yielded, arrived, fetchLog, pageCursors>>

\* The sleep is over: the loop sends the same url again.
Wake ==
  /\ pc = "sleeping"
  /\ pc' = "sending"
  /\ pull' = [pull EXCEPT !.reqs = Append(@, url), !.status = 0]
  /\ UNCHANGED <<fetch_state, url, yielded, arrived, fetchLog, pageCursors>>

Next ==
  \/ (\E q \in Queries, l \in Limits, m \in Floors : Tweets(q, l, m))
       /\ UNCHANGED aux
  \/ PullStop /\ UNCHANGED aux
  \/ PullBuffered /\ UNCHANGED aux
  \/ PullFetch /\ UNCHANGED aux
  \/ RespondNetworkError /\ UNCHANGED aux
  \/ (\E s \in Statuses, b \in Bodies : RespondSuccess(s, b))
       /\ UNCHANGED aux
  \/ (\E s \in Statuses : RespondRetry(s)) /\ UNCHANGED aux
  \/ (\E s \in Statuses : RespondBadStatus(s)) /\ UNCHANGED aux
  \/ Wake /\ UNCHANGED aux

Spec == Init /\ [][Next]_vars

\* ------------------------------------- the stream on pages with a long key
\* An upstream whose tweets mapping has the key "10", which the BTreeMap
\* puts before "2" and "9": a page may then hold a tweet after one with a
\* smaller identifier; a tweet may lack its identifier.
Entry10 ==
  <<"1", "0">> :> Obj([id_str |-> Str(<<"1", "0">>), user_id_str |-> Str(<<"u">>)])
\* A tweet without an identifier.
EntryNoId == <<"4">> :> Obj([user_id_str |-> Str(<<"u">>)])
OrderEntries == {Entry9, Entry2, Entry10, EntryBadId, EntryNoId}
OrderTweetMaps == { Map(MergeEntries(S)) : S \in SUBSET OrderEntries }
OrderTimelines == {Arr(<<Str(<<"x">>)>>), Arr(<<Str(<<"scroll:", "A">>)>>)}
OrderBodies ==
  {NotJson}
  \cup { Json(Obj([globalObjects |-> Obj([tweets |-> tw, users |-> Users]),
                   timeline |-> tl])) : tw \in OrderTweetMaps, tl \in OrderTimelines }
OrderStatuses == {200, 404, 429}

NextOrder ==
  \/ (\E q \in Queries, l \in Limits, m \in Floors : Tweets(q, l, m))
       /\ UNCHANGED aux
  \/ PullStop /\ UNCHANGED aux
  \/ PullBuffered /\ UNCHANGED aux
  \/ PullFetch /\ UNCHANGED aux
  \/ RespondNetworkError /\ UNCHANGED aux
  \/ (\E s \in OrderStatuses, b \in OrderBodies : RespondSuccess(s, b))
       /\ UNCHANGED aux
  \/ (\E s \in OrderStatuses : RespondRetry(s)) /\ UNCHANGED aux
  \/ (\E s \in OrderStatuses : RespondBadStatus(s)) /\ UNCHANGED aux
  \/ Wake /\ UNCHANGED aux

SpecOrder == Init /\ [][NextOrder]_vars

\* ------------------------------------------------ one stream, with fairness
\* One stream, pulled by its consumer, on an upstream that answers every
\* request and, after at most MaxRetries retryable statuses in a pull, with
\* something else; the sleep of a retry ends.
Answer ==
  \/ RespondNetworkError /\ UNCHANGED aux
  \/ (\E s \in Statuses, b \in Bodies : RespondSuccess(s, b)) /\ UNCHANGED aux
  \/ (\E s \in Statuses : RespondRetry(s)) /\ UNCHANGED aux
  \/ (\E s \in Statuses : RespondBadStatus(s)) /\ UNCHANGED aux

NextLive ==
  \/ (pc = "nostream"
      /\ \E q \in Queries, l \in Limits, m \in Floors : Tweets(q, l, m))
       /\ UNCHANGED aux
  \/ PullStop /\ UNCHANGED aux
  \/ PullBuffered /\ UNCHANGED aux
  \/ PullFetch /\ UNCHANGED aux
  \/ RespondNetworkError /\ UNCHANGED aux
  \/ (\E s \in Statuses, b \in Bodies : RespondSuccess(s, b))
       /\ UNCHANGED aux
  \/ (\E s \in Statuses : RespondRetry(s)) /\ UNCHANGED aux
  \/ (\E s \in Statuses : RespondBadStatus(s)) /\ UNCHANGED aux
  \/ Wake /\ UNCHANGED aux

SpecLive ==
  /\ Init /\ [][NextLive]_vars
  /\ WF_vars(Answer)
  /\ WF_vars(Wake /\ UNCHANGED aux)

\* ------------------------------------------ streams on the same scraper
\* A small upstream, two queries, and a record of each tweets() call: its
\* arguments and what the earlier stream, dropped by then, had come to.
RestartQueries == {<<"r">>, <<"s">>}
RestartTweetMaps == { Map(MergeEntries(S)) : S \in SUBSET {Entry9, Entry2} }
RestartBodies ==
  {NotJson}
  \cup { Json(Obj([globalObjects |-> Obj([tweets |-> tw, users |-> Users]),
                   timeline |-> tl])) :
           tw \in RestartTweetMaps, tl \in OrderTimelines }

\* What a stream has come to: where it is, and whether it holds tweets, holds
\* a cursor, has yielded tweets, has errored.
Earlier(fs, p) ==
  [pc |-> p, buffered |-> fs.tweets # <<>>, cursor |-> fs.cursor.some,
   counted |-> fs.tweets_count > 0, errored |-> fs.errored]

NextRestart ==
  \/ \E q \in RestartQueries, l \in Limits, m \in Floors :
       /\ Tweets(q, l, m)
       /\ calls' = [args |-> [query |-> q, limit |-> l, min_id |-> m],
                    earlier |-> IF pc = "nostream" THEN None
                                ELSE Some(Earlier(fetch_state, pc))]
       /\ UNCHANGED <<hdr, cli, dec>>
  \/ PullStop /\ UNCHANGED aux
  \/ PullBuffered /\ UNCHANGED aux
  \/ PullFetch /\ UNCHANGED aux
  \/ RespondNetworkError /\ UNCHANGED aux
  \/ (\E s \in OrderStatuses, b \in RestartBodies : RespondSuccess(s, b))
       /\ UNCHANGED aux
  \/ (\E s \in OrderStatuses : RespondRetry(s)) /\ UNCHANGED aux
  \/ (\E s \in OrderStatuses : RespondBadStatus(s)) /\ UNCHANGED aux
  \/ Wake /\ UNCHANGED aux

SpecRestart == Init /\ [][NextRestart]_vars

\* ------------------------------------------- header_persist.rs, as a system
\* save_headers: File::create or a write may fail, and nothing is promised
\* about the file then; otherwise the file holds the lines of the map in
\* the map's iteration order.
SaveHeaders(order, io_ok) ==
  /\ hdr.pc = "start"
  /\ hdr' = IF io_ok
              THEN [hdr EXCEPT !.pc = "saved", !.order = order,
                               !.file = WriteHeaders(hdr.headers, order),
                               !.saved = Ok(<<>>)]
              ELSE [hdr EXCEPT !.pc = "failed", !.saved = Err(LoadIo)]
  /\ UNCHANGED <<stream, cli, dec, calls>>

\* load_headers on the file save_headers wrote.
LoadHeaders(open_ok) ==
  /\ hdr.pc = "saved"
  /\ hdr' = [hdr EXCEPT !.pc = "loaded", !.opened = open_ok,
                        !.loaded = IF open_ok THEN load_headers(hdr.file)
                                   ELSE Err(LoadIo)]
  /\ UNCHANGED <<stream, cli, dec, calls>>

InitHeaders ==
  /\ NoStream
  /\ calls = NoCalls
  /\ \E h \in HeaderSets : hdr = [NoHeaders EXCEPT !.pc = "start", !.headers = h]
  /\ cli = NoMain
  /\ dec = NoDecode

NextHeaders ==
  \/ \E o \in Orders(DOMAIN hdr.headers), ok \in BOOLEAN : SaveHeaders(o, ok)
  \/ \E ok \in BOOLEAN : LoadHeaders(ok)

SpecHeaders == InitHeaders /\ [][NextHeaders]_vars

\* ------------------------------------------- parse_tweets, as a system
\* Bodies parse_tweets is run on: every shape of tweet (with a user that
\* is in the users map, with one that is not, with a user_id_str that is no
\* string, without user_id_str, not an object), with and without users.
EntryNotObject == <<"7">> :> Str(<<"t">>)
Entry11 ==
  <<"1", "1">> :> Obj([id_str |-> Str(<<"1", "1">>), user_id_str |-> Str(<<"u">>)])
Entry12 ==
  <<"1", "2">> :> Obj([id_str |-> Str(<<"1", "2">>), user_id_str |-> Str(<<"x">>)])
DecodeEntries ==
  {Entry9, Entry2, Entry10, Entry11, Entry12, EntryBadId, EntryNoUserKey,
   EntryNotObject}
DecodeTweetMaps == { Map(MergeEntries(S)) : S \in SUBSET DecodeEntries }
DecodeBodies ==
  {Obj([timeline |-> Arr(<<Str(<<"scroll:", "A">>)>>)])}
  \cup { Obj([globalObjects |-> Obj([tweets |-> tw, users |-> us]),
              timeline |-> tl]) :
           tw \in DecodeTweetMaps, us \in {Users, Map(<<>>)}, tl \in Timelines }

\* parse_tweets on one body.
ParseTweets ==
  /\ dec.pc = "decode"
  /\ dec' = [dec EXCEPT !.pc = "done", !.out = parse_tweets(dec.input)]
  /\ UNCHANGED <<stream, hdr, cli, calls>>

InitDecode ==
  /\ NoStream
  /\ calls = NoCalls
  /\ hdr = NoHeaders
  /\ cli = NoMain
  /\ \E b \in DecodeBodies : dec = [NoDecode EXCEPT !.pc = "decode", !.input = b]

NextDecode == ParseTweets

SpecDecode == InitDecode /\ [][NextDecode]_vars

\* One more run of the cursor part of parse_tweets on the same timeline.
ExtractCursor ==
  /\ dec.pc = "scan"
  /\ Len(dec.scans) < MaxScans
  /\ dec' = [dec EXCEPT !.scans = Append(@, extract_cursor(dec.input))]
  /\ UNCHANGED <<stream, hdr, cli, calls>>

InitCursor ==
  /\ NoStream
  /\ calls = NoCalls
  /\ hdr = NoHeaders
  /\ cli = NoMain
  /\ \E tl \in ScanTimelines : dec = [NoDecode EXCEPT !.pc = "scan", !.input = tl]

NextCursor == ExtractCursor

SpecCursor == InitCursor /\ [][NextCursor]_vars

\* ------------------------------------------------------------------ main.rs
Last(q) == q[Len(q)]

\* The exit code of a process whose main thread panicked.
PanicExitCode == 101
\* What TweetScraper::initialize may return: Ok, or the error of the step
\* that failed.
InitOutcomes == {"ok", "PersistHeaders", "Cdp", "Internal"}
\* What writeln!(io::stdout(), ..) may return.
WriteOutcomes == {"ok", "BrokenPipe", "Other"}

Exit(c, code) == [c EXCEPT !.pc = "exited", !.code = code]

\* TweetScraper::initialize(header_persist).await and the match on it.
MainInitialize(outcome) ==
  /\ cli.pc = "start"
  /\ cli' = IF outcome = "ok" THEN [cli EXCEPT !.pc = "args", !.init = outcome]
            ELSE Exit([cli EXCEPT !.init = outcome], 1)
  /\ UNCHANGED <<stream, hdr, dec, calls>>

\* scraper.tweets(args.query, args.limit, args.min_id).await
MainTweets(q, l, m) ==
  /\ cli.pc = "args"
  /\ Tweets(q, l, m)
  /\ cli' = [cli EXCEPT !.pc = "next"]
  /\ UNCHANGED <<hdr, dec, calls>>

\* tweets_stream.next().await: main is suspended while the stream takes the
\* step A; when that step completes the pull, main has the item (Some), or
\* leaves the loop and returns ExitCode::SUCCESS (None), or has panicked
\* with the stream.
Await(A) ==
  /\ cli.pc = "next"
  /\ A
  /\ cli' = CASE pull'.result \in {"item", "error"} ->
                   [cli EXCEPT !.pc = "got", !.taken = @ + 1]
              [] pull'.result = "end" -> Exit(cli, 0)
              [] pull'.result = "panic" -> Exit(cli, PanicExitCode)
              [] OTHER -> cli
  /\ UNCHANGED <<hdr, dec, calls>>

\* tweet_result.unwrap() on an error item.
MainUnwrapPanics ==
  /\ cli.pc = "got"
  /\ Last(yielded).r = "err"
  /\ cli' = Exit(cli, PanicExitCode)
  /\ UNCHANGED <<stream, hdr, dec, calls>>

\* Variant of the loop body that goes on after every failed write.
MainWriteIgnoresFailure(outcome) ==
  /\ cli.pc = "got"
  /\ Last(yielded).r = "ok"
  /\ cli' = [cli EXCEPT !.pc = "next", !.write = outcome]
  /\ UNCHANGED <<stream, hdr, dec, calls>>

\* The loop body on a tweet: writeln and the match on its error kind.
MainWrite(outcome) ==
  /\ cli.pc = "got"
  /\ Last(yielded).r = "ok"
  /\ cli' = CASE outcome = "ok" ->
                   [cli EXCEPT !.pc = "next", !.write = outcome,
                               !.written = @ + 1]
              [] outcome = "BrokenPipe" -> Exit([cli EXCEPT !.write = outcome], 0)
              [] OTHER -> Exit([cli EXCEPT !.write = outcome], 1)
  /\ UNCHANGED <<stream, hdr, dec, calls>>

InitMain ==
  /\ NoStream
  /\ calls = NoCalls
  /\ hdr = NoHeaders
  /\ cli = [NoMain EXCEPT !.pc = "start"]
  /\ dec = NoDecode

NextMain ==
  \/ \E o \in InitOutcomes : MainInitialize(o)
  \/ \E q \in Queries, l \in Limits, m \in Floors : MainTweets(q, l, m)
  \/ Await(PullStop)
  \/ Await(PullBuffered)
  \/ Await(PullFetch)
  \/ Await(RespondNetworkError)
  \/ Await(\E s \in Statuses, b \in Bodies : RespondSuccess(s, b))
  \/ Await(\E s \in Statuses : RespondRetry(s))
  \/ Await(\E s \in Statuses : RespondBadStatus(s))
  \/ Await(Wake)
  \/ MainUnwrapPanics
  \/ \E w \in WriteOutcomes : MainWrite(w)

SpecMain == InitMain /\ [][NextMain]_vars

\* ------------------------------------------------------------ properties
OkIndices == { i \in 1..Len(yielded) : yielded[i].r = "ok" }
ErrIndices == { i \in 1..Len(yielded) : yielded[i].r = "err" }
\* The number of tweets popped from the buffer so far.
PoppedCount == Len(arrived) - Len(fetch_state.tweets)
\* The identifier of a buffered tweet, when it parses.
IdBelow(tweet, m) == parse_id(tweet.v).r = "ok" /\ parse_id(tweet.v).v < m
\* The current pull has completed a query_twitter call that returned a page.
PageFetched ==
  /\ pull.fetches = 1
  /\ pc \in {"ready", "ended"}
  /\ pull.result \in {"item", "error", "end"}
  /\ pull.status = 0 /\ ~pull.transport
  /\ Len(pageCursors) = Len(fetchLog)

\* C1: with a limit L configured the stream has yielded at most L successful
\* records, in every reachable state; with L = 0 it has yielded none.
C1_AtMostLimit ==
  fetch_state.limit.some => Cardinality(OkIndices) <= fetch_state.limit.x

\* C1 witness: a stream with limit 2 ended after two records while a third
\* was still buffered.
C1_Witness ==
  /\ fetch_state.limit = Some(2)
  /\ Cardinality(OkIndices) = 2
  /\ fetch_state.tweets # <<>>
  /\ pc = "ended"

\* A pull that started with an empty buffer fetched a page with no tweets
\* and a cursor.
EmptyPagePull == PageFetched /\ pull.popped = <<>>

\* C2 as stated: after a pull with an empty buffer fetched an empty page with
\* a valid cursor, the stream has not reached end-of-sequence.
C2_EmptyPageKeepsStreamOpen == EmptyPagePull => pc # "ended"

\* C2 amended: such a pull yields nothing, stores the new cursor and returns
\* end-of-sequence: the stream has ended.
C2_EmptyPageEndsStream ==
  EmptyPagePull =>
    /\ pc = "ended"
    /\ pull.result = "end"
    /\ fetch_state.tweets = <<>>
    /\ fetch_state.cursor = Some(Last(pageCursors))

\* C2 witness: the second page of a stream was empty, with a cursor other
\* than the first page's.
C2_Witness ==
  /\ EmptyPagePull
  /\ Len(pageCursors) = 2
  /\ pageCursors[1] # pageCursors[2]
  /\ yielded # <<>>

\* C3 as stated: with a floor M, once a tweet below M has been popped, it
\* is not yielded and no tweet popped after it is yielded, in that pull or in
\* a later one.
C3_FloorEndsStream ==
  fetch_state.min_id.some =>
    \A u \in 1..PoppedCount :
      IdBelow(arrived[u], fetch_state.min_id.x) =>
        \A i \in OkIndices : yielded[i].v.uid < u

\* C4: with a floor M configured, every record yielded has an identifier
\* that parses as an unsigned integer >= M.
C4_YieldedAtLeastFloor ==
  fetch_state.min_id.some =>
    \A i \in OkIndices :
      /\ parse_id(yielded[i].v.v).r = "ok"
      /\ parse_id(yielded[i].v.v).v >= fetch_state.min_id.x

\* C4 witness: a record was yielded under a floor although the page also
\* held a tweet below the floor.
C4_Witness ==
  /\ fetch_state.min_id.some
  /\ OkIndices # {}
  /\ \E u \in 1..Len(arrived) : IdBelow(arrived[u], fetch_state.min_id.x)

\* C5: an error item is the last item of the stream, and after it the only
\* thing a pull does is end the sequence: no fetch, nothing yielded.
C5_ErrorAbsorbing ==
  /\ \A i \in ErrIndices : i = Len(yielded)
  /\ ErrIndices # {} =>
       /\ fetch_state.errored
       /\ pc \in {"ready", "ended"}
       /\ pc = "ready" => pull.result = "error"
       /\ pc = "ended" => pull.result = "end" /\ pull.fetches = 0

\* C5 witness: a stream that yielded a record, then an error, and was then
\* pulled again.
C5_Witness ==
  /\ ErrIndices # {}
  /\ OkIndices # {}
  /\ pc = "ended"

\* The statuses the claim lists as retried.
ListedRetryStatuses == {429, 408} \cup 500..599

\* C6: the fetcher sleeps only on 429, 408 or 500..599; any other non-2xx
\* status fails the fetch at once with BadStatus carrying that code, with no
\* sleep and no further request.
C6_RetryOnlyListedStatuses ==
  /\ pc = "sleeping" => pull.status \in ListedRetryStatuses
  /\ (pull.status # 0 /\ pull.status \notin ListedRetryStatuses) =>
       /\ pc = "ready"
       /\ pull.result = "error"
       /\ Last(yielded) = Err(BadStatus(pull.status))
       /\ pull.sleeps = pull.retryable
       /\ Len(pull.reqs) = pull.retryable + 1

\* C6 witness: a 404 failed a fetch that had been retried once before.
C6_Witness ==
  /\ pull.status = 404
  /\ pull.retryable = 1
  /\ pull.result = "error"

\* C7: after n retryable statuses the call has slept n times and sent n+1
\* requests (n while asleep), all with the url of the call; while the call
\* is running no error has been set or yielded.
C7_RetryRepeatsRequest ==
  /\ pull.sleeps = pull.retryable
  /\ pull.fetches = 1 =>
       /\ Len(pull.reqs) =
            IF pc = "sleeping" THEN pull.retryable ELSE pull.retryable + 1
       /\ \A i \in 1..Len(pull.reqs) : pull.reqs[i] = Last(fetchLog)
  /\ pc \in {"sending", "sleeping"} =>
       /\ ~fetch_state.errored
       /\ ErrIndices = {}
       /\ pull.result = "pending"

\* C7 witness: the second page of a stream arrived after two retryable
\* statuses and its first record was yielded.
C7_Witness ==
  /\ PageFetched
  /\ pull.retryable = 2
  /\ Len(pull.reqs) = 3
  /\ Len(fetchLog) = 2
  /\ pull.result = "item"

\* C8: a transport failure fails the fetch with a Network error, without a
\* sleep or another request; the error is yielded and the stream is terminal.
C8_TransportFailureFatal ==
  pull.transport =>
    /\ pc = "ready"
    /\ pull.result = "error"
    /\ Last(yielded) = Err(Network)
    /\ fetch_state.errored
    /\ StopsEarly(fetch_state)
    /\ pull.sleeps = pull.retryable
    /\ Len(pull.reqs) = pull.retryable + 1

\* C8 witness: send() failed on the request that followed a sleep.
C8_Witness ==
  /\ pull.transport
  /\ pull.retryable = 1
  /\ Len(yielded) > 1

C10_YieldedOnceFifo ==
  /\ \A i, j \in OkIndices : i < j => yielded[i].v.uid < yielded[j].v.uid
  /\ \A i \in OkIndices :
       /\ yielded[i].v.uid \in 1..PoppedCount
       /\ yielded[i].v = arrived[yielded[i].v.uid]
  /\ fetch_state.tweets = SubSeq(arrived, PoppedCount + 1, Len(arrived))
  /\ \A u \in 1..Len(arrived) : arrived[u].uid = u

\* C10 witness: records of two pages were yielded, three in all.
C10_Witness ==
  /\ Cardinality(OkIndices) >= 3
  /\ Len(pageCursors) = 2
  /\ \E i \in OkIndices : yielded[i].v.uid = Len(arrived)

\* The number of tweets the k-th page of this stream held.
PageSize(k) == Cardinality({ u \in 1..Len(arrived) : arrived[u].page = k })

\* C11: once tweets_count has reached the limit no query_twitter call is
\* running or started; with limit L, no floor and a first page of at least L
\* tweets the stream makes one call only, yields the page's tweets in buffer
\* order and has yielded exactly the first L when it ends; with L = 0 it
\* makes no call.
C11_NoFetchAtLimit ==
  fetch_state.limit.some =>
    /\ fetch_state.tweets_count >= fetch_state.limit.x =>
         /\ pc \in {"ready", "ended"}
         /\ pc = "ended" => pull.fetches = 0
    /\ fetch_state.limit.x = 0 => fetchLog = <<>> /\ yielded = <<>>
    /\ (~fetch_state.min_id.some /\ pageCursors # <<>>
        /\ PageSize(1) >= fetch_state.limit.x) =>
         /\ Len(fetchLog) = 1
         /\ Len(yielded) <= fetch_state.limit.x
         /\ \A i \in 1..Len(yielded) : yielded[i] = Ok(arrived[i])
         /\ pc = "ended" => Len(yielded) = fetch_state.limit.x

\* C11 witness: limit 2, a first page of three tweets, two yielded and the
\* stream ended on the third pull, one call made.
C11_Witness ==
  /\ fetch_state.limit = Some(2)
  /\ ~fetch_state.min_id.some
  /\ PageSize(1) = 3
  /\ Len(yielded) = 2
  /\ Len(fetchLog) = 1
  /\ pc = "ended"

\* C12 as stated: with a floor M, once a tweet below M has been popped no
\* query_twitter call is running or started and no error item is produced.
C12_FloorStopsWork ==
  (fetch_state.min_id.some
   /\ \E u \in 1..PoppedCount : IdBelow(arrived[u], fetch_state.min_id.x)) =>
    /\ pc \notin {"sending", "sleeping"}
    /\ ErrIndices = {}

\* The (name, value) pairs of a HeaderMap.
Pairs(headers) ==
  UNION { { <<n, headers[n][i]>> : i \in 1..Len(headers[n]) } :
          n \in DOMAIN headers }

\* C13 as stated: for every header set, save_headers followed by load_headers
\* on the same file returns a header set with the same name-to-value pairs,
\* whatever the order of the lines, also when one name carries several
\* values and when values contain "=".
C13_HeaderRoundTrip ==
  (hdr.pc = "loaded" /\ hdr.opened) =>
    /\ hdr.loaded.r = "ok"
    /\ Pairs(hdr.loaded.v) = Pairs(hdr.headers)

\* C14: the command-line driver exits with a non-zero code when initialize
\* fails (before any stream exists), when the stream yields an error item
\* and when a write to standard output fails with anything but a broken
\* pipe; on a broken pipe it takes nothing more from the stream and exits
\* with code zero.
C14_ExitCodes ==
  /\ cli.pc = "exited" <=> cli.code # -1
  /\ cli.init \notin {"none", "ok"} =>
       cli.pc = "exited" /\ cli.code # 0 /\ pc = "nostream"
  /\ ErrIndices # {} =>
       \/ cli.pc = "got" /\ cli.taken = Len(yielded)
       \/ cli.pc = "exited" /\ cli.code # 0
  /\ cli.write = "Other" => cli.pc = "exited" /\ cli.code # 0
  /\ cli.write = "BrokenPipe" =>
       /\ cli.pc = "exited" /\ cli.code = 0
       /\ Len(yielded) = cli.written + 1
       /\ pc = "ready" /\ pull.result = "item"

C14_Witness ==
  /\ cli.write = "BrokenPipe" /\ cli.code = 0
  /\ cli.written >= 1
  /\ fetch_state.tweets # <<>>

\* The places of the serialized text where a quote, scroll:, at least one
\* more character and a quote stand: <<i, j>> are the two quotes.
Occurrences(text) ==
  { ij \in (1..Len(text)) \X (1..Len(text)) :
      /\ text[ij[1]] = "\"" /\ text[ij[2]] = "\""
      /\ ij[1] + 3 <= ij[2]
      /\ text[ij[1] + 1] = "scroll:" }

\* C15: every scan of the same timeline returns the same result, which is
\* the first scroll-continuation token of the serialized text: the text
\* between the quotes of the occurrence that starts leftmost and, from that
\* start, ends first; with no occurrence every scan is the error "could not
\* find cursor".
C15_CursorIsFirstToken ==
  LET text == to_string(dec.input)
      occ == Occurrences(text)
  IN \A n \in 1..Len(dec.scans) :
       /\ dec.scans[n] = dec.scans[1]
       /\ occ = {} => dec.scans[n] = Err(TweetParse("could not find cursor"))
       /\ occ # {} =>
            /\ dec.scans[n].r = "ok"
            /\ \E ij \in occ :
                 /\ dec.scans[n].v = SubSeq(text, ij[1] + 1, ij[2] - 1)
                 /\ \A o \in occ :
                      ij[1] < o[1] \/ (ij[1] = o[1] /\ ij[2] <= o[2])

\* Two scans of a timeline whose first token comes after a quote inside a
\* string and is followed by a second token.
C15_Witness ==
  /\ dec.input = Arr(<<Str(<<"x", "\"", "scroll:", "A">>), Str(<<"scroll:", "B">>)>>)
  /\ dec.scans = <<Ok(<<"scroll:", "A">>), Ok(<<"scroll:", "A">>)>>

\* C16 as stated: a page fetch is issued only in a pull that starts with an
\* empty buffer and a stream that is not terminal; a pull that starts with
\* a non-empty buffer (it popped a tweet before any fetch) never issues one.
C16_FetchOnlyOnEmptyBuffer ==
  pc \in {"sending", "sleeping"} =>
    /\ pull.fetches = 1
    /\ pull.popped = <<>>
    /\ ~StopsEarly(fetch_state)

\* The first tweet of the k-th page, as buffered.
FirstOfPage(k) ==
  arrived[Min({ u \in 1..Len(arrived) : arrived[u].page = k })]

\* C17 as stated: a pull issues at most one page fetch, and when the fetch
\* succeeds with a non-empty page, the tweet the pull then examines is the
\* first tweet of the page just fetched, and an item the pull hands back is
\* that tweet.
C17_FreshPageHeadReturned ==
  /\ pull.fetches <= 1
  /\ (PageFetched /\ PageSize(Len(pageCursors)) > 0) =>
       /\ pull.popped # <<>>
       /\ Last(pull.popped) = FirstOfPage(Len(pageCursors))
       /\ pull.result = "item" => Last(yielded) = Ok(FirstOfPage(Len(pageCursors)))

\* The tweets popped so far whose identifier is missing or does not parse.
PoppedInvalid ==
  { u \in 1..PoppedCount : parse_id(arrived[u].v).r = "err" }

\* C18: with a floor configured, a popped tweet whose identifier is missing
\* or does not parse as an integer is not yielded: the last item of the
\* stream is its validation error, the error flag is set and the count of
\* yielded tweets does not include it; with no floor the identifier plays
\* no part, every popped tweet is yielded, in order.
C18_RecordValidation ==
  /\ fetch_state.tweets_count = Cardinality(OkIndices)
  /\ fetch_state.min_id.some =>
       \A u \in PoppedInvalid :
         /\ \A i \in OkIndices : yielded[i].v # arrived[u]
         /\ yielded # <<>> /\ Last(yielded) = Err(parse_id(arrived[u].v).e)
         /\ fetch_state.errored
         /\ u = PoppedCount
  /\ ~fetch_state.min_id.some =>
       /\ PoppedCount = Cardinality(OkIndices)
       /\ \A u \in 1..PoppedCount : yielded[u] = Ok(arrived[u])

\* With a floor, a tweet was yielded and then a tweet without identifier
\* gave the validation error, with more tweets still buffered.
C18_Witness ==
  /\ fetch_state.min_id.some
  /\ Len(yielded) = 2 /\ yielded[1].r = "ok"
  /\ yielded[2] = Err(TweetParse("no id_str key"))
  /\ PoppedInvalid = {2}
  /\ fetch_state.tweets # <<>>

\* The errors query_twitter returns: bad status, transport failure, a body
\* that is not JSON or not of the expected shape, cursor not found.
IsFetchError(item) ==
  /\ item.r = "err"
  /\ \/ item.e = Network
     \/ \E s \in Statuses : item.e = BadStatus(s)
     \/ item.e \in {TweetParse("not json"), TweetParse("bad shape"),
                    TweetParse("could not find cursor")}

\* What a step taken while a page fetch is under way does.
FetchStepKeepsState ==
  pc \in {"sending", "sleeping"} =>
    /\ pc' \in {"sending", "sleeping"} =>
         UNCHANGED <<fetch_state, arrived, yielded, pageCursors>>
    /\ (pc' = "ready" /\ yielded' # <<>> /\ IsFetchError(Last(yielded'))) =>
         /\ fetch_state' = [fetch_state EXCEPT !.errored = TRUE]
         /\ ~fetch_state.errored
         /\ yielded' = Append(yielded, Last(yielded'))
         /\ UNCHANGED <<arrived, pageCursors>>

\* C19: while a page fetch is under way the buffer, the cursor and the count
\* do not change, and when it fails (bad status, transport failure,
\* structural parse error, cursor not found) the pull yields the error and
\* changes nothing but the error flag: no tweet of the failed page is
\* buffered or yielded.
C19_FailedFetchKeepsState == [][FetchStepKeepsState]_vars

\* The fetch of a second page failed on a body without cursor: the cursor
\* of the first page and the count are still there.
C19_Witness ==
  /\ fetch_state.errored
  /\ Last(yielded) = Err(TweetParse("could not find cursor"))
  /\ Len(fetchLog) = 2 /\ Len(pageCursors) = 1
  /\ fetch_state.cursor = Some(pageCursors[1])
  /\ fetch_state.tweets_count = 1

\* The tweet has a user_id_str that names a key of the users map.
NamesUser(tweet, users) ==
  /\ tweet.t = "obj"
  /\ "user_id_str" \in DOMAIN tweet.f
  /\ tweet.f.user_id_str.t = "str"
  /\ tweet.f.user_id_str.s \in DOMAIN users

\* C20 as stated: for every body that has the tweets map, the users map and
\* a timeline with a cursor, decoding succeeds whatever the shape of the
\* tweets; a tweet carries the user under "user" exactly when its
\* user_id_str names a key of the users map, and every other tweet (no such
\* user, or no user_id_str) is output unchanged.
C20_MergeNeverFails ==
  (dec.pc = "done" /\ IsRoot(dec.input)
   /\ cursor_re_captures(to_string(dec.input.f.timeline)).some) =>
    LET tweets == dec.input.f.globalObjects.f.tweets.m
        users == dec.input.f.globalObjects.f.users.m
        keys == KeysDesc(DOMAIN tweets)
    IN /\ dec.out.r = "ok"
       /\ Len(dec.out.v.tweets) = Len(keys)
       /\ \A i \in 1..Len(keys) :
            LET in == tweets[keys[i]]
                out == dec.out.v.tweets[i]
            IN IF NamesUser(in, users)
                 THEN /\ out.f.user = users[in.f.user_id_str.s]
                      /\ \A k \in DOMAIN in.f \ {"user"} : out.f[k] = in.f[k]
               ELSE out = in

\* The number of keys of K that come after k in the string order.
KeysAfter(k, K) == Cardinality({ o \in K : StrLess(k, o) })

\* C21: a successful decoding outputs one tweet per key of the tweets map,
\* in descending string order of the keys: the tweet of a key stands behind
\* exactly the tweets of the keys that are greater; for the keys "10", "11",
\* "12" the order is 12, 11, 10.
C21_DescendingKeyOrder ==
  (dec.pc = "done" /\ dec.out.r = "ok") =>
    LET tweets == dec.input.f.globalObjects.f.tweets.m
        users == dec.input.f.globalObjects.f.users.m
        K == DOMAIN tweets
    IN /\ Len(dec.out.v.tweets) = Cardinality(K)
       /\ \A k \in K :
            dec.out.v.tweets[1 + KeysAfter(k, K)] = MergeUser(tweets[k], users)
       /\ K = {<<"1", "0">>, <<"1", "1">>, <<"1", "2">>} =>
            [i \in 1..3 |-> dec.out.v.tweets[i].f.id_str.s]
              = << <<"1", "2">>, <<"1", "1">>, <<"1", "0">> >>

\* The page with the keys "10", "11", "12" was decoded into three tweets.
C21_Witness ==
  /\ dec.pc = "done" /\ dec.out.r = "ok"
  /\ DOMAIN dec.input.f.globalObjects.f.tweets.m
       = {<<"1", "0">>, <<"1", "1">>, <<"1", "2">>}
  /\ Len(dec.out.v.tweets) = 3
  /\ dec.out.v.tweets[1].f.id_str = Str(<<"1", "2">>)

\* The part of the state a consumer finds when it abandons the stream.
StreamState(fs) == <<fs.tweets, fs.cursor, fs.tweets_count, fs.errored>>

\* A step that takes the pull to a suspension point (the request under way,
\* or the retry sleep), or from one to the next, leaves the state as it was.
StepToSuspensionKeepsState ==
  pc' \in {"sending", "sleeping"} =>
    StreamState(fetch_state') = StreamState(fetch_state)

\* C22 as stated: at every suspension point inside a pull the buffer, the
\* cursor, the count and the error flag are those of the start of the pull.
\* A pull starts in a state without suspension, so this is: every step that
\* ends in a suspension point keeps them.
C22_SuspensionKeepsState == [][StepToSuspensionKeepsState]_vars

\* The stream has been created and not pulled yet.
JustCreated == pc = "ready" /\ pull = NoPull

\* C23: a stream created by tweets() on a scraper that has served an earlier
\* stream (whatever that one had come to) starts with an empty buffer, no
\* cursor, count 0, error flag clear and the new query, limit and floor;
\* its first fetch carries the new query and no cursor, and what it buffers
\* and yields are tweets of its own pages only.
C23_TweetsResetsState ==
  calls.args # <<>> =>
    /\ fetch_state.query = calls.args.query
    /\ fetch_state.limit = calls.args.limit
    /\ fetch_state.min_id = calls.args.min_id
    /\ JustCreated =>
         /\ fetch_state.tweets = <<>>
         /\ fetch_state.cursor = None
         /\ fetch_state.tweets_count = 0
         /\ ~fetch_state.errored
    /\ fetchLog # <<>> => fetchLog[1] = BuildUrl(calls.args.query, None)
    /\ \A i \in 1..Len(fetch_state.tweets) :
         fetch_state.tweets[i] = arrived[PoppedCount + i]
    /\ \A i \in OkIndices : \E u \in 1..PoppedCount : yielded[i].v = arrived[u]
    /\ PoppedCount >= 0

\* A stream with another query, created after a stream that had reached
\* its limit with tweets still buffered and a cursor stored, has fetched its
\* first page and yielded a tweet of it.
C23_Witness ==
  /\ calls.earlier =
       Some([pc |-> "ended", buffered |-> TRUE, cursor |-> TRUE,
             counted |-> TRUE, errored |-> FALSE])
  /\ calls.args.query = <<"s">>
  /\ Len(fetchLog) = 1 /\ Len(yielded) = 1 /\ yielded[1].r = "ok"

\* A pull is inside query_twitter; a pull has returned to the consumer.
PullPending == pc \in {"sending", "sleeping"}
PullCompleted == pull.result \in {"item", "error", "end"}

\* A retryable answer and the sleep after it keep the pull pending and the
\* stream as it is: nothing is yielded, the stream does not end.
RetryKeepsPending ==
  /\ (pc = "sending" /\ pull'.retryable > pull.retryable) =>
       pc' = "sleeping" /\ UNCHANGED <<yielded, fetch_state>>
  /\ pc = "sleeping" =>
       pc' = "sending" /\ UNCHANGED <<yielded, fetch_state>>

\* C24 as stated: when the upstream comes to answer each page request with
\* a 2xx body, a status that is not retried or a transport failure, every
\* pull completes with a tweet, an error or the end of the stream; as long
\* as it answers statuses that are retried, the pull stays pending and the
\* stream yields no error and does not end.
C24_PullLiveness ==
  /\ PullPending ~> PullCompleted
  /\ [][RetryKeepsPending]_vars
====
